---- MODULE Spec2Model ----
(***************************************************************************)
(* Model of mindsdb/interfaces/storage/model_fs.py: the ModelStorage and   *)
(* HandlerStorage facades over the record store, the file backend and the  *)
(* JSON store.                                                             *)
(*                                                                         *)
(* Python values are encoded as follows.  An optional value (None or x) is *)
(* a set: {} is None and {x} is x.  A dict is a function from a finite set *)
(* of keys.  A str is a sequence of one-character strings.                 *)
(***************************************************************************)
EXTENDS Integers, Sequences, FiniteSets, TLC

VARIABLES
    \* ModelStorage metadata
    predictor,   \* the db.Predictor row of self.predictor_id: None when absent
    prev,        \* the row as it was when the last call began
    lastOp,      \* the last call: name, arguments, exception raised, value returned
    \* name normalization
    nhist,       \* a name followed by the results of normalizing it again and again
    \* two callers of update_data on one predictor id
    row,         \* the committed db.Predictor row
    session,     \* per caller: the row object its session holds, None before the read
    pc,          \* per caller: "start", "read", "merged", "done"
    callerPatch, \* per caller: the argument of its update_data call
    events,      \* the reads and commits of the callers, in the order they took place
    \* HandlerStorage
    local,       \* the local folder of the integration: its files and directories
    remote,      \* the same folder in remote storage
    remote0,     \* remote storage as it was when the instance was constructed
    before,      \* the local and the remote folder as they were when the last
                 \* call began
    is_temporal, \* self.is_temporal
    calls,       \* the calls the last operation made on self.fileStorage, in order
    json,        \* the JSON store of (INTEGRATION, integration_id): name -> value
    hOp,         \* the last HandlerStorage call: name, arguments, raised, returned
    \* export into another integration's folder
    target,      \* a second instance, of another integration: its local and
                 \* remote folder, its is_temporal, its local files at the start
    walked,      \* the files of the folder export_files read, None before the export
    stage,       \* "start", "nothing", "exported", "imported", "reimported"
    \* the files and JSON values of several resources
    fileStorages, \* per (resource group, resource id): the local and remote folder
    jsonStorage, \* per (resource group, resource id): name -> value
    lastSet,     \* per (resource group, resource id) and name: the value of the
                 \* last json_set made for it since its values were cleaned
    filesBefore, \* fileStorages as it was when the last call began
    self,        \* the (resource group, resource id) of the instance last called
    mCalls,      \* the calls the last operation made on self.fileStorage, in order
    mOp,         \* the last file, folder, JSON or delete call
    \* HandlerStorage connection arguments
    integration, \* the db.Integration row of self.integration_id: None when absent
    integrationBefore, \* the row as it was when the last call began
    cOp,         \* the last get_connection_args / update_connection_args call
    \* a second HandlerStorage instance of the same integration id
    cache2,      \* its local folder (the first instance's is 'local'); the two
                 \* instances share 'remote'
    temporal2,   \* its is_temporal
    caller,      \* the instance, 1 or 2, that made the last call
    written      \* per file name: the content a non-temporal file_set stored,
                 \* None once something else has written that name

modelVars == <<predictor, prev, lastOp>>

normVars == <<nhist>>

concVars == <<row, session, pc, callerPatch, events>>

handlerVars == <<local, remote, remote0, before, is_temporal, calls, json, hOp>>

tripVars == <<target, walked, stage>>

storeVars == <<fileStorages, jsonStorage, lastSet, filesBefore, self, mCalls, mOp>>

connVars == <<integration, integrationBefore, cOp>>

pairVars == <<cache2, temporal2, caller, written>>

vars == <<modelVars, normVars, concVars, handlerVars, tripVars, storeVars, connVars,
          pairVars>>

-----------------------------------------------------------------------------
(* Optional values *)

None == {}

Some(x) == {x}

Unwrap(o) == CHOOSE x \in o : TRUE

-----------------------------------------------------------------------------
(* Bounds of the inputs *)

MaxVal == 3

Keys == {"a", "b"}

Vals == 1..MaxVal

Dicts(K, V) == UNION {[D -> V] : D \in SUBSET K}

\* the mappings given as arguments: any value under "a", the value 2 under "b"
Patches == {d \in Dicts(Keys, Vals) : "b" \in DOMAIN d => d["b"] = 2}

LearnPatches == Dicts({"a"}, {1, 2})

EmptyDict == CHOOSE d \in Patches : DOMAIN d = {}

Statuses == {"training", "complete"}

StatusInfos == {None} \cup {Some(d) : d \in Dicts({"b"}, {2})}

ColumnSets == {[c \in {"x"} |-> "int"]}

PhaseNums == {None} \cup {Some(n) : n \in {0, 1, 2}}

PhaseTotals == {None, Some(10)}

PhaseNames == {None, Some(<<"f", "i", "t">>)}

-----------------------------------------------------------------------------
(* ModelStorage: the metadata fields of the predictor record *)

\* dict.update(): the keys of patch override, the other keys of d stay
DictUpdate(d, patch) ==
    [k \in DOMAIN d \cup DOMAIN patch |->
        IF k \in DOMAIN patch THEN patch[k] ELSE d[k]]

_get_model_record_always_checking(table, check_exists) ==
    IF table = None
    THEN [raised |-> "KeyError", rec |-> None]
    ELSE [raised |-> "", rec |-> table]

\* db.Predictor.query.get(self.predictor_id), and the KeyError of check_exists
_get_model_record(table, check_exists) ==
    IF check_exists /\ table = None
    THEN [raised |-> "KeyError", rec |-> None]
    ELSE [raised |-> "", rec |-> table]

update_data_replace(rec, data) ==
    [rec EXCEPT !.data = Some(data)]

update_data(rec, data) ==
    IF rec.data = None
    THEN [rec EXCEPT !.data = Some(data)]
    ELSE [rec EXCEPT !.data = Some(DictUpdate(Unwrap(rec.data), data))]

update_learn_args(rec, data) ==
    IF rec.learn_args = None
    THEN [rec EXCEPT !.learn_args = Some(data)]
    ELSE [rec EXCEPT !.learn_args = Some(DictUpdate(Unwrap(rec.learn_args), data))]

status_set_truthy(rec, status, status_info) ==
    LET r1 == [rec EXCEPT !.status = status]
    IN  IF status_info # None /\ DOMAIN Unwrap(status_info) # {}
        THEN [r1 EXCEPT !.data = status_info]
        ELSE r1

status_set(rec, status, status_info) ==
    LET r1 == [rec EXCEPT !.status = status]
    IN  IF status_info # None
        THEN [r1 EXCEPT !.data = status_info]
        ELSE r1

training_state_set_truthy(rec, current_state_num, total_states, state_name) ==
    LET r1 == IF current_state_num # None /\ current_state_num # Some(0)
              THEN [rec EXCEPT !.training_phase_current = current_state_num]
              ELSE rec
        r2 == IF total_states # None
              THEN [r1 EXCEPT !.training_phase_total = total_states]
              ELSE r1
    IN  IF state_name # None
        THEN [r2 EXCEPT !.training_phase_name = state_name]
        ELSE r2

training_state_set(rec, current_state_num, total_states, state_name) ==
    LET r1 == IF current_state_num # None
              THEN [rec EXCEPT !.training_phase_current = current_state_num]
              ELSE rec
        r2 == IF total_states # None
              THEN [r1 EXCEPT !.training_phase_total = total_states]
              ELSE r1
    IN  IF state_name # None
        THEN [r2 EXCEPT !.training_phase_name = state_name]
        ELSE r2

training_state_get(rec) ==
    <<rec.training_phase_current, rec.training_phase_total, rec.training_phase_name>>

columns_get(rec) == rec.dtype_dict

columns_set(rec, columns) == [rec EXCEPT !.dtype_dict = Some(columns)]

get_info(rec) ==
    [status |-> rec.status, to_predict |-> rec.to_predict, data |-> rec.data]

\* A record as its creator (outside this layer) leaves it
NewRecord ==
    [status |-> "training", to_predict |-> <<"y">>, data |-> None,
     learn_args |-> None, dtype_dict |-> None,
     training_phase_current |-> None, training_phase_total |-> None,
     training_phase_name |-> None]

\* The call just made: its name, its arguments, what it raised, what it returned
Call(name, args, raised, ret) ==
    [name |-> name, args |-> args, raised |-> raised, ret |-> ret]

NoCall == Call("", <<>>, "", None)

otherThanModel == <<normVars, concVars, handlerVars, tripVars, storeVars, connVars, pairVars>>

\* The call ends in an exception before anything is written: the one that
\* _get_model_record raised, or the AttributeError of rec.<field> on the None
\* it returns without the check
Absent(name, args, raised) ==
    /\ predictor' = predictor
    /\ lastOp' = Call(name, args, IF raised # "" THEN raised ELSE "AttributeError",
                      None)

UpdateData ==
    \E data \in Patches :
        LET got == _get_model_record(predictor, TRUE)
        IN  /\ prev' = predictor
            /\ UNCHANGED otherThanModel
            /\ IF got.raised # ""
               THEN /\ predictor' = predictor
                    /\ lastOp' = Call("update_data", <<data>>, got.raised, None)
               ELSE /\ predictor' = Some(update_data(Unwrap(got.rec), data))
                    /\ lastOp' = Call("update_data", <<data>>, "", None)

UpdateLearnArgs ==
    \E data \in LearnPatches :
        LET got == _get_model_record(predictor, TRUE)
        IN  /\ prev' = predictor
            /\ UNCHANGED otherThanModel
            /\ IF got.raised # ""
               THEN /\ predictor' = predictor
                    /\ lastOp' = Call("update_learn_args", <<data>>, got.raised, None)
               ELSE /\ predictor' = Some(update_learn_args(Unwrap(got.rec), data))
                    /\ lastOp' = Call("update_learn_args", <<data>>, "", None)

StatusSet ==
    \E status \in Statuses, status_info \in StatusInfos :
        LET got == _get_model_record(predictor, FALSE)
        IN  /\ prev' = predictor
            /\ UNCHANGED otherThanModel
            /\ IF got.raised # "" \/ got.rec = None
               THEN Absent("status_set", <<status, status_info>>, got.raised)
               ELSE /\ predictor' = Some(status_set(Unwrap(got.rec), status, status_info))
                    /\ lastOp' = Call("status_set", <<status, status_info>>, "", None)

TrainingStateSet ==
    \E c \in PhaseNums, t \in PhaseTotals, n \in PhaseNames :
        LET got == _get_model_record(predictor, FALSE)
        IN  /\ prev' = predictor
            /\ UNCHANGED otherThanModel
            /\ IF got.raised # ""
                  \/ (got.rec = None /\ (c # None \/ t # None \/ n # None))
               THEN Absent("training_state_set", <<c, t, n>>, got.raised)
               ELSE IF got.rec = None
               \* no argument supplied: rec is never dereferenced, and the
               \* commit has nothing to write
               THEN /\ predictor' = predictor
                    /\ lastOp' = Call("training_state_set", <<c, t, n>>, "", None)
               ELSE /\ predictor' = Some(training_state_set(Unwrap(got.rec), c, t, n))
                    /\ lastOp' = Call("training_state_set", <<c, t, n>>, "", None)

TrainingStateGet ==
    LET got == _get_model_record(predictor, FALSE)
    IN  /\ prev' = predictor
        /\ UNCHANGED otherThanModel
        /\ IF got.raised # "" \/ got.rec = None
           THEN Absent("training_state_get", <<>>, got.raised)
           ELSE /\ predictor' = predictor
                /\ lastOp' = Call("training_state_get", <<>>, "",
                                  Some(training_state_get(Unwrap(got.rec))))

ColumnsSet ==
    \E columns \in ColumnSets :
        LET got == _get_model_record(predictor, FALSE)
        IN  /\ prev' = predictor
            /\ UNCHANGED otherThanModel
            /\ IF got.raised # "" \/ got.rec = None
               THEN Absent("columns_set", <<columns>>, got.raised)
               ELSE /\ predictor' = Some(columns_set(Unwrap(got.rec), columns))
                    /\ lastOp' = Call("columns_set", <<columns>>, "", None)

ColumnsGet ==
    LET got == _get_model_record(predictor, FALSE)
    IN  /\ prev' = predictor
        /\ UNCHANGED otherThanModel
        /\ IF got.raised # "" \/ got.rec = None
           THEN Absent("columns_get", <<>>, got.raised)
           ELSE /\ predictor' = predictor
                /\ lastOp' = Call("columns_get", <<>>, "",
                                  Some(columns_get(Unwrap(got.rec))))

GetInfo ==
    LET got == _get_model_record(predictor, FALSE)
    IN  /\ prev' = predictor
        /\ UNCHANGED otherThanModel
        /\ IF got.raised # "" \/ got.rec = None
           THEN Absent("get_info", <<>>, got.raised)
           ELSE /\ predictor' = predictor
                /\ lastOp' = Call("get_info", <<>>, "",
                                  Some(get_info(Unwrap(got.rec))))

IdleModel ==
    /\ predictor = None
    /\ prev = None
    /\ lastOp = NoCall

IdleNorm == nhist = <<>>

EmptyFiles == [p \in {} |-> 0]

EmptyFolder == [files |-> EmptyFiles, dirs |-> {}]

IdleHandler ==
    /\ local = EmptyFolder
    /\ remote = EmptyFolder
    /\ remote0 = EmptyFolder
    /\ before = [local |-> EmptyFolder, remote |-> EmptyFolder]
    /\ is_temporal = FALSE
    /\ calls = <<>>
    /\ json = <<>>
    /\ hOp = NoCall

IdleTrip ==
    /\ target = [local |-> EmptyFolder, remote |-> EmptyFolder,
                 temporal |-> FALSE, initial |-> EmptyFiles]
    /\ walked = None
    /\ stage = ""

IdlePair ==
    /\ cache2 = EmptyFolder
    /\ temporal2 = FALSE
    /\ caller = 0
    /\ written = <<>>

IdleConn ==
    /\ integration = None
    /\ integrationBefore = None
    /\ cOp = NoCall

IdleStore ==
    /\ fileStorages = <<>>
    /\ jsonStorage = <<>>
    /\ lastSet = <<>>
    /\ filesBefore = <<>>
    /\ self = <<>>
    /\ mCalls = <<>>
    /\ mOp = NoCall

IdleConc ==
    /\ row = None
    /\ session = <<>>
    /\ pc = <<>>
    /\ callerPatch = <<>>
    /\ events = <<>>

Init ==
    /\ predictor \in {None, Some(NewRecord)}
    /\ prev = predictor
    /\ lastOp = NoCall
    /\ IdleNorm
    /\ IdleConc
    /\ IdleHandler
    /\ IdleTrip
    /\ IdleStore
    /\ IdleConn
    /\ IdlePair

Next ==
    \/ UpdateData
    \/ UpdateLearnArgs
    \/ StatusSet
    \/ TrainingStateSet
    \/ TrainingStateGet
    \/ ColumnsSet
    \/ ColumnsGet
    \/ GetInfo

Spec == Init /\ [][Next]_vars

-----------------------------------------------------------------------------
(* Claims about the metadata fields, checked under Spec *)

Dict1(k, v) == [x \in {k} |-> v]

Dict2(k1, v1, k2, v2) == [x \in {k1, k2} |-> IF x = k1 THEN v1 ELSE v2]

Returned(name) == lastOp.name = name /\ lastOp.raised = ""

\* new is old overridden by patch, stated key by key; a field that held no
\* mapping becomes the patch itself
MergedInto(old, patch, new) ==
    IF old = None
    THEN new = Some(patch)
    ELSE /\ new # None
         /\ DOMAIN Unwrap(new) = DOMAIN Unwrap(old) \cup DOMAIN patch
         /\ \A k \in DOMAIN patch : Unwrap(new)[k] = patch[k]
         /\ \A k \in DOMAIN Unwrap(old) \ DOMAIN patch :
                Unwrap(new)[k] = Unwrap(old)[k]

(* C1: merge law.  After update_data(P) on an existing record the 'data'   *)
(* field is the old mapping overridden by P: every key of P has P's value, *)
(* every other old key keeps its value, there are no other keys; a field   *)
(* that was not a mapping becomes P.  The same for update_learn_args on    *)
(* 'learn_args'.  So {a:1} then {b:2} gives {a:1,b:2}, and {a:1} then      *)
(* {a:3} gives {a:3}.                                                      *)
C1_MergeLaw ==
    /\ Returned("update_data") =>
          MergedInto(Unwrap(prev).data, lastOp.args[1], Unwrap(predictor).data)
    /\ Returned("update_learn_args") =>
          MergedInto(Unwrap(prev).learn_args, lastOp.args[1],
                     Unwrap(predictor).learn_args)
    /\ (Returned("update_data") /\ Unwrap(prev).data = Some(Dict1("a", 1))) =>
          /\ lastOp.args[1] = Dict1("b", 2) =>
                Unwrap(predictor).data = Some(Dict2("a", 1, "b", 2))
          /\ lastOp.args[1] = Dict1("a", 3) =>
                Unwrap(predictor).data = Some(Dict1("a", 3))

\* update_data({b:2}) has returned on a record whose data was {a:1}
C1_Witness ==
    /\ Returned("update_data")
    /\ lastOp.args[1] = Dict1("b", 2)
    /\ Unwrap(prev).data = Some(Dict1("a", 1))
    /\ Unwrap(predictor).data = Some(Dict2("a", 1, "b", 2))

(* C2: replace law.  status_set(status, status_info) on an existing record *)
(* sets the status to the given value; with status_info supplied (an empty *)
(* mapping included) 'data' afterwards is status_info exactly; with        *)
(* status_info omitted 'data' is unchanged; learn_args, dtype_dict and the *)
(* training phase fields are unchanged in both cases.                      *)
C2_ReplaceLaw ==
    Returned("status_set") =>
        LET old == Unwrap(prev)
            new == Unwrap(predictor)
            status == lastOp.args[1]
            status_info == lastOp.args[2]
        IN  /\ new.status = status
            /\ status_info # None => new.data = status_info
            /\ status_info = None => new.data = old.data
            /\ new.learn_args = old.learn_args
            /\ new.dtype_dict = old.dtype_dict
            /\ new.training_phase_current = old.training_phase_current
            /\ new.training_phase_total = old.training_phase_total
            /\ new.training_phase_name = old.training_phase_name

\* status_set("complete", {b:2}) has returned on a record whose data was {a:1}
C2_Witness ==
    /\ Returned("status_set")
    /\ lastOp.args = <<"complete", Some(Dict1("b", 2))>>
    /\ Unwrap(prev).data = Some(Dict1("a", 1))
    /\ Unwrap(predictor).data = Some(Dict1("b", 2))
    /\ Unwrap(predictor).status = "complete"

(* C3: partial update law.  After training_state_set on an existing record *)
(* with any subset of its three arguments supplied, training_state_get     *)
(* returns, in the order (current, total, name), the supplied value of     *)
(* each supplied field (a supplied 0 included) and the prior value of each *)
(* field not supplied.                                                     *)
C3_PartialUpdate ==
    /\ (Returned("training_state_set") /\ prev # None) =>
          LET old == Unwrap(prev)
              got == training_state_get(Unwrap(predictor))
          IN  /\ got[1] = IF lastOp.args[1] # None THEN lastOp.args[1]
                          ELSE old.training_phase_current
              /\ got[2] = IF lastOp.args[2] # None THEN lastOp.args[2]
                          ELSE old.training_phase_total
              /\ got[3] = IF lastOp.args[3] # None THEN lastOp.args[3]
                          ELSE old.training_phase_name
    /\ (Returned("training_state_get") /\ prev # None) =>
          /\ predictor = prev
          /\ Len(Unwrap(lastOp.ret)) = 3
          /\ Unwrap(lastOp.ret)[1] = Unwrap(predictor).training_phase_current
          /\ Unwrap(lastOp.ret)[2] = Unwrap(predictor).training_phase_total
          /\ Unwrap(lastOp.ret)[3] = Unwrap(predictor).training_phase_name

\* training_state_set(current=2) has returned on a record at (1, 10, "fit")
C3_Witness ==
    /\ Returned("training_state_set")
    /\ lastOp.args = <<Some(2), None, None>>
    /\ training_state_get(Unwrap(prev)) = <<Some(1), Some(10), Some(<<"f", "i", "t">>)>>
    /\ training_state_get(Unwrap(predictor)) =
          <<Some(2), Some(10), Some(<<"f", "i", "t">>)>>

CheckingMethods == {"update_data", "update_learn_args"}

OnAbsentRecord == prev = None /\ lastOp # NoCall

(* C14: no ModelStorage metadata operation returns normally on an absent   *)
(* predictor record: update_data and update_learn_args raise KeyError, and *)
(* get_info, status_set, training_state_set for any combination of         *)
(* arguments, training_state_get, columns_get and columns_set raise        *)
(* AttributeError; in every case no record is created and no field is      *)
(* written.                                                                *)
C14_AbsentRecordAlwaysFails ==
    OnAbsentRecord =>
        /\ lastOp.raised = IF lastOp.name \in CheckingMethods
                           THEN "KeyError" ELSE "AttributeError"
        /\ predictor = None

(* C14 as amended: on an absent predictor record update_data and           *)
(* update_learn_args raise KeyError; get_info, status_set,                 *)
(* training_state_get, columns_get, columns_set, and training_state_set    *)
(* with at least one argument supplied, raise AttributeError;              *)
(* training_state_set with no argument supplied returns normally; in every *)
(* case no record is created and no field is written.                      *)
C14_AbsentRecordFailsOnAccess ==
    OnAbsentRecord =>
        /\ lastOp.raised =
              IF lastOp.name \in CheckingMethods THEN "KeyError"
              ELSE IF lastOp.name = "training_state_set"
                      /\ lastOp.args = <<None, None, None>> THEN ""
              ELSE "AttributeError"
        /\ lastOp.ret = None
        /\ predictor = None

\* training_state_set(current=0) has raised AttributeError on an absent
\* record, and no record exists afterwards
C14_Witness ==
    /\ OnAbsentRecord
    /\ lastOp.name = "training_state_set"
    /\ lastOp.args = <<Some(0), None, None>>
    /\ lastOp.raised = "AttributeError"
    /\ predictor = None

-----------------------------------------------------------------------------
(* Name normalization: HandlerStorage.__convert_name and the same two      *)
(* statements inline in ModelStorage.folder_get / folder_sync              *)

MaxLen == 3

LowerLetters ==
    <<"a", "b", "c", "d", "e", "f", "g", "h", "i", "j", "k", "l", "m",
      "n", "o", "p", "q", "r", "s", "t", "u", "v", "w", "x", "y", "z">>

UpperLetters ==
    <<"A", "B", "C", "D", "E", "F", "G", "H", "I", "J", "K", "L", "M",
      "N", "O", "P", "Q", "R", "S", "T", "U", "V", "W", "X", "Y", "Z">>

Digits == {"0", "1", "2", "3", "4", "5", "6", "7", "8", "9"}

Range(seq) == {seq[i] : i \in 1..Len(seq)}

\* The characters names are built from: a lowercase and an uppercase letter,
\* a digit, the underscore, a space, a tab, and punctuation
Alphabet == {"a", "Z", "7", "_", " ", "\t", "!", "^", "/", "."}

MyFolder == <<"M", "y", " ", "F", "o", "l", "d", "e", "r", "!", "!", "1">>

NameInputs == UNION {[1..n -> Alphabet] : n \in 0..MaxLen} \cup {MyFolder}

\* chr.lower(), on ASCII
CharLower(c) ==
    IF c \in Range(UpperLetters)
    THEN LowerLetters[CHOOSE i \in 1..26 : UpperLetters[i] = c]
    ELSE c

RECURSIVE lower(_)
\* str.lower()
lower(s) ==
    IF Len(s) = 0 THEN <<>> ELSE <<CharLower(Head(s))>> \o lower(Tail(s))

RECURSIVE replace(_, _, _)
\* str.replace(old, new) for one-character old and new
replace(s, old, new) ==
    IF Len(s) = 0 THEN <<>>
    ELSE <<IF Head(s) = old THEN new ELSE Head(s)>> \o replace(Tail(s), old, new)

\* The class [^a-z^A-Z^_\d]: every character but a-z, '^', A-Z, '_' and digits
\* (the '^' after the first is a member of the negated set)
InClass(c) ==
    c \notin Range(LowerLetters) \cup {"^"} \cup Range(UpperLetters) \cup {"_"} \cup Digits

RECURSIVE SkipRun(_)
\* s without its leading characters of the class: what the '+' consumes
SkipRun(s) ==
    IF Len(s) > 0 /\ InClass(Head(s)) THEN SkipRun(Tail(s)) ELSE s

RECURSIVE re_sub_each(_)
\* the pattern without its '+': every character of the class becomes '_'
re_sub_each(s) ==
    IF Len(s) = 0 THEN <<>>
    ELSE <<IF InClass(Head(s)) THEN "_" ELSE Head(s)>> \o re_sub_each(Tail(s))

RECURSIVE re_sub(_)
\* re.sub(r'([^a-z^A-Z^_\d]+)', '_', s): every maximal run of the class
\* becomes one '_'
re_sub(s) ==
    IF Len(s) = 0 THEN <<>>
    ELSE IF InClass(Head(s))
         THEN <<"_">> \o re_sub(SkipRun(Tail(s)))
         ELSE <<Head(s)>> \o re_sub(Tail(s))

\* HandlerStorage.__convert_name
__convert_name(name) == re_sub(replace(lower(name), " ", "_"))

\* The two statements at the head of ModelStorage.folder_get and folder_sync
folder_name(name) ==
    LET name1 == replace(lower(name), " ", "_")
    IN  re_sub(name1)

otherThanNorm == <<modelVars, concVars, handlerVars, tripVars, storeVars, connVars, pairVars>>

ConvertName ==
    /\ Len(nhist) < 3
    /\ nhist' = Append(nhist, __convert_name(nhist[Len(nhist)]))
    /\ UNCHANGED otherThanNorm

FolderName ==
    /\ Len(nhist) < 3
    /\ nhist' = Append(nhist, folder_name(nhist[Len(nhist)]))
    /\ UNCHANGED otherThanNorm

InitNorm ==
    /\ nhist \in {<<name>> : name \in NameInputs}
    /\ IdleModel
    /\ IdleConc
    /\ IdleHandler
    /\ IdleTrip
    /\ IdleStore
    /\ IdleConn
    /\ IdlePair

NextNorm ==
    \/ ConvertName
    \/ FolderName

SpecNorm == InitNorm /\ [][NextNorm]_vars

(* C7: name normalization is idempotent: normalizing a normalized name     *)
(* gives it back, for __convert_name and for the inline statements of      *)
(* ModelStorage alike, which compute the same key; and "My Folder!!1"      *)
(* normalizes to "my_folder_1".                                            *)
C7_Idempotent ==
    /\ Len(nhist) >= 2 =>
          /\ nhist[2] = __convert_name(nhist[1])
          /\ nhist[2] = folder_name(nhist[1])
    /\ Len(nhist) = 3 => nhist[3] = nhist[2]
    /\ (Len(nhist) >= 2 /\ nhist[1] = MyFolder) =>
          nhist[2] = <<"m", "y", "_", "f", "o", "l", "d", "e", "r", "_", "1">>

\* a name that normalization changes (a capital, a space and a tab in it)
\* has been normalized twice
C7_Witness ==
    /\ Len(nhist) = 3
    /\ nhist[1] = <<"Z", " ", "\t">>
    /\ nhist[2] = <<"z", "_", "_">>
    /\ nhist[3] = nhist[2]

IsWhitespace(c) == c \in {" ", "\t"}

OutsideWord(c) ==
    c \notin Range(LowerLetters) \cup Range(UpperLetters) \cup {"_"} \cup Digits

RECURSIVE WhitespaceToUnderscore(_)
WhitespaceToUnderscore(s) ==
    IF Len(s) = 0 THEN <<>>
    ELSE <<IF IsWhitespace(Head(s)) THEN "_" ELSE Head(s)>>
             \o WhitespaceToUnderscore(Tail(s))

RECURSIVE CollapseRuns(_, _)
\* every maximal run of characters outside [a-zA-Z0-9_] as a single '_';
\* inRun says that the character before the head of s was in such a run
CollapseRuns(s, inRun) ==
    IF Len(s) = 0 THEN <<>>
    ELSE IF OutsideWord(Head(s))
         THEN (IF inRun THEN <<>> ELSE <<"_">>) \o CollapseRuns(Tail(s), TRUE)
         ELSE <<Head(s)>> \o CollapseRuns(Tail(s), FALSE)

\* The rule as documented: lowercase, whitespace to '_', every run of
\* characters outside [a-zA-Z0-9_] to a single '_'
DocumentedKey(name) == CollapseRuns(WhitespaceToUnderscore(lower(name)), FALSE)

(* C8: normalized key alphabet.  The folder key that folder_get and        *)
(* folder_sync hand to the file backend consists only of lowercase         *)
(* letters, digits and '_': capitals are lowercased, whitespace becomes    *)
(* '_', and every run of characters outside [a-zA-Z0-9_] ('^', '/', '.'    *)
(* included) is collapsed to a single '_'.                                 *)
C8_KeyAlphabet ==
    Len(nhist) >= 2 =>
        /\ \A i \in 1..Len(nhist[2]) :
              nhist[2][i] \in Range(LowerLetters) \cup Digits \cup {"_"}
        /\ nhist[2] = DocumentedKey(nhist[1])

-----------------------------------------------------------------------------
(* Two callers, each with a session of its own, run update_data on the     *)
(* same predictor id.  A call is three steps with nothing held in between: *)
(* the lookup loads the row into the caller's session, the merge changes   *)
(* the session's object, the commit writes its 'data' column.              *)

Callers == {1, 2}

Other(c) == 3 - c

\* flag_modified(model_record, 'data'); db.session.commit(): the UPDATE
\* writes the session's value of the column over the stored one
commit_merging(stored, mine) ==
    [stored EXCEPT !.data =
        IF stored.data = None \/ mine.data = None THEN mine.data
        ELSE Some(DictUpdate(Unwrap(stored.data), Unwrap(mine.data)))]

commit(stored, mine) == [stored EXCEPT !.data = mine.data]

otherThanConc == <<modelVars, normVars, handlerVars, tripVars, storeVars, connVars, pairVars>>

CallerRead(c) ==
    /\ pc[c] = "start"
    /\ _get_model_record(row, TRUE).raised = ""
    /\ session' = [session EXCEPT ![c] = _get_model_record(row, TRUE).rec]
    /\ pc' = [pc EXCEPT ![c] = "read"]
    /\ events' = Append(events, <<"read", c>>)
    /\ UNCHANGED <<row, callerPatch, otherThanConc>>

CallerMerge(c) ==
    /\ pc[c] = "read"
    /\ session' = [session EXCEPT ![c] = Some(update_data(Unwrap(session[c]), callerPatch[c]))]
    /\ pc' = [pc EXCEPT ![c] = "merged"]
    /\ UNCHANGED <<row, callerPatch, events, otherThanConc>>

CallerCommit(c) ==
    /\ pc[c] = "merged"
    /\ row' = Some(commit(Unwrap(row), Unwrap(session[c])))
    /\ events' = Append(events, <<"commit", c>>)
    /\ pc' = [pc EXCEPT ![c] = "done"]
    /\ UNCHANGED <<session, callerPatch, otherThanConc>>

\* The patches of the two callers are on disjoint keys: "a" and "b"
InitConc ==
    /\ row \in {Some([NewRecord EXCEPT !.data = d]) :
                   d \in {None} \cup {Some(m) : m \in Patches}}
    /\ session = [c \in Callers |-> None]
    /\ pc = [c \in Callers |-> "start"]
    /\ callerPatch \in
          {[c \in Callers |-> IF c = 1 THEN Dict1("a", v) ELSE Dict1("b", w)] :
              v \in Vals, w \in Vals}
    /\ events = <<>>
    /\ IdleModel
    /\ IdleNorm
    /\ IdleHandler
    /\ IdleTrip
    /\ IdleStore
    /\ IdleConn
    /\ IdlePair

NextConc ==
    \/ \E c \in Callers : CallerRead(c)
    \/ \E c \in Callers : CallerMerge(c)
    \/ \E c \in Callers : CallerCommit(c)

SpecConc == InitConc /\ [][NextConc]_vars

Holds(data, p) ==
    /\ data # None
    /\ \A k \in DOMAIN p : k \in DOMAIN Unwrap(data) /\ Unwrap(data)[k] = p[k]

BothDone == \A c \in Callers : pc[c] = "done"

When(ev, c) == CHOOSE i \in 1..Len(events) : events[i] = <<ev, c>>

LastWriter == events[Len(events)][2]

(* C6: no mutual exclusion, last writer wins.  When both calls have        *)
(* returned, the stored 'data' is what the caller that committed last had  *)
(* in its session, its own patch merged into the mapping it read: it holds *)
(* that caller's patch, and the other caller's patch is guaranteed only    *)
(* when the last committer read after the other's commit.  Nothing orders  *)
(* the read after that commit, so there is an interleaving that loses the  *)
(* other patch (the C6_Witness state).                                     *)
C6_LastWriterWins ==
    BothDone =>
        /\ Unwrap(row).data = Unwrap(session[LastWriter]).data
        /\ Holds(Unwrap(row).data, callerPatch[LastWriter])
        /\ When("read", LastWriter) > When("commit", Other(LastWriter)) =>
              Holds(Unwrap(row).data, callerPatch[Other(LastWriter)])

\* both calls have returned and the stored mapping lacks the key of the
\* patch committed first: that update is lost
C6_Witness ==
    /\ BothDone
    /\ \E k \in DOMAIN callerPatch[Other(LastWriter)] :
          k \notin DOMAIN Unwrap(Unwrap(row).data)

-----------------------------------------------------------------------------
(* The file backend (FileStorage of fs.py, built with sync=False) as the   *)
(* facade uses it.  A folder is its files, a function from relative paths  *)
(* to contents, and its directories, a set of relative paths; a path is    *)
(* the sequence of its components, each a str.                             *)

Contents == {1, 2}

DirLock == <<"d", "i", "r", ".", "l", "o", "c", "k">>

SERVICE_FILES_NAMES == {DirLock}

Last(p) == p[Len(p)]

Overlay(f, g) ==
    [x \in DOMAIN f \cup DOMAIN g |-> IF x \in DOMAIN g THEN g[x] ELSE f[x]]

Restrict(f, S) == [x \in S |-> f[x]]

\* the directories above path p
Parents(p) == {SubSeq(p, 1, n) : n \in 1..(Len(p) - 1)}

\* the local path of a name: the folder root for ''
PathOf(name) == IF name = <<>> THEN <<>> ELSE <<name>>

\* path p is name itself or lies under it; everything lies under ''
Under(p, name) == name = <<>> \/ (Len(p) >= 1 /\ p[1] = name)

Subtree(folder, name) ==
    [files |-> Restrict(folder.files, {p \in DOMAIN folder.files : Under(p, name)}),
     dirs |-> {d \in folder.dirs : Under(d, name)}]

CopyOver(dst, src) ==
    [files |-> Overlay(dst.files, src.files), dirs |-> dst.dirs \cup src.dirs]

\* A world is what the facade's calls act on: the local folder, the remote
\* one, and the log of the calls made on self.fileStorage
World(l, r) == [local |-> l, remote |-> r, calls |-> <<>>]

Logged(w, fn, name) == [w EXCEPT !.calls = Append(@, <<fn, name>>)]

\* fileStorage.pull_path(name): remote -> local, for the named subtree
pull_path(w, name) ==
    [Logged(w, "pull_path", name) EXCEPT
        !.local = CopyOver(w.local, Subtree(w.remote, name))]

\* fileStorage.push_path(name): local -> remote, for the named subtree
push_path(w, name) ==
    [Logged(w, "push_path", name) EXCEPT
        !.remote = CopyOver(w.remote, Subtree(w.local, name))]

\* fileStorage.file_set(name, content): a local write
backend_file_set(w, name, content) ==
    [Logged(w, "file_set", name) EXCEPT
        !.local.files = Overlay(@, [p \in {<<name>>} |-> content])]

\* fileStorage.file_get(name): a local read, None for a missing file
backend_file_get(w, name) ==
    [w |-> Logged(w, "file_get", name),
     ret |-> IF <<name>> \in DOMAIN w.local.files
             THEN Some(w.local.files[<<name>>]) ELSE None]

\* fileStorage.get_path(name)
get_path(w, name) == [w |-> Logged(w, "get_path", name), ret |-> PathOf(name)]

\* fileStorage.folder_path.iterdir(): the entries at the top of the folder
iterdir(folder) ==
    {[path |-> p, is_file |-> TRUE] : p \in {q \in DOMAIN folder.files : Len(q) = 1}}
    \cup {[path |-> d, is_file |-> FALSE] : d \in {q \in folder.dirs : Len(q) = 1}}

-----------------------------------------------------------------------------
(* HandlerStorage *)

is_empty_files_only(folder) ==
    \A entry \in iterdir(folder) :
        ~entry.is_file \/ Last(entry.path) \in SERVICE_FILES_NAMES

\* False at the first entry that is not a regular file with a service name
is_empty(folder) ==
    ~\E entry \in iterdir(folder) :
        ~(entry.is_file /\ Last(entry.path) \in SERVICE_FILES_NAMES)

HandlerStorage_file_get_without_pull(w, name) ==
    backend_file_get(w, name)

HandlerStorage_file_get(w, name) ==
    backend_file_get(pull_path(w, name), name)

HandlerStorage_file_set_pushing(w, temporal, name, content) ==
    push_path(backend_file_set(w, name, content), name)

HandlerStorage_file_set(w, temporal, name, content) ==
    LET w1 == backend_file_set(w, name, content)
    IN  IF ~temporal THEN push_path(w1, name) ELSE w1

HandlerStorage_folder_get(w, name) ==
    LET name1 == __convert_name(name)
    IN  get_path(pull_path(w, name1), name1)

HandlerStorage_folder_sync(w, temporal, name) ==
    IF temporal THEN w ELSE push_path(w, __convert_name(name))

\* os.walk(folder_path) with the service file names skipped: the archive,
\* a function from the paths relative to the folder to the contents
ZipOf(folder) ==
    Restrict(folder.files,
             {p \in DOMAIN folder.files : Last(p) \notin SERVICE_FILES_NAMES})

\* zip_ref.extractall(folder_path): every entry written, its directories made
ExtractAll(folder, content) ==
    [files |-> Overlay(folder.files, content),
     dirs |-> folder.dirs \cup UNION {Parents(p) : p \in DOMAIN content}]

export_files_with_service_files(w) ==
    IF is_empty(w.local)
    THEN [w |-> w, ret |-> None]
    ELSE LET got == HandlerStorage_folder_get(w, <<>>)
         IN  [w |-> got.w, ret |-> Some(got.w.local.files)]

export_files_pull_first(w) ==
    LET got == HandlerStorage_folder_get(w, <<>>)
    IN  IF is_empty(got.w.local)
        THEN [w |-> got.w, ret |-> None]
        ELSE [w |-> got.w, ret |-> Some(ZipOf(got.w.local))]

export_files_top_level(w) ==
    IF is_empty(w.local)
    THEN [w |-> w, ret |-> None]
    ELSE LET got == HandlerStorage_folder_get(w, <<>>)
         IN  [w |-> got.w,
              ret |-> Some(Restrict(ZipOf(got.w.local),
                           {p \in DOMAIN ZipOf(got.w.local) : Len(p) = 1}))]

export_files(w) ==
    IF is_empty(w.local)
    THEN [w |-> w, ret |-> None]
    ELSE LET got == HandlerStorage_folder_get(w, <<>>)
         IN  [w |-> got.w, ret |-> Some(ZipOf(got.w.local))]

import_files_push_first(w, temporal, content) ==
    LET got == HandlerStorage_folder_get(w, <<>>)
        w1 == HandlerStorage_folder_sync(got.w, temporal, <<>>)
    IN  [w1 EXCEPT !.local = ExtractAll(@, content)]

import_files(w, temporal, content) ==
    LET got == HandlerStorage_folder_get(w, <<>>)
        w1 == [got.w EXCEPT !.local = ExtractAll(@, content)]
    IN  HandlerStorage_folder_sync(w1, temporal, <<>>)

import_files_interrupted_then_sync(w, temporal, content, extracted) ==
    LET got == HandlerStorage_folder_get(w, <<>>)
        w1 == [got.w EXCEPT !.local = ExtractAll(@, Restrict(content, extracted))]
    IN  HandlerStorage_folder_sync(w1, temporal, <<>>)

\* import_files when ZipFile() or extractall() raises after the entries
\* 'extracted' have been written: the exception leaves the method before
\* folder_sync('')
import_files_interrupted(w, temporal, content, extracted) ==
    LET got == HandlerStorage_folder_get(w, <<>>)
    IN  [got.w EXCEPT !.local = ExtractAll(@, Restrict(content, extracted))]

HandlerStorage_json_set(store, name, content) ==
    [store EXCEPT ![name] = Some(content)]

HandlerStorage_json_get(store, name) == store[name]

-----------------------------------------------------------------------------
(* One HandlerStorage instance and the calls made on it *)

FileNames == {<<"a">>, <<"A">>}

FolderNames == {<<>>, <<"d">>, <<"D">>}

JsonNames == {<<"k">>}

ArchiveInputs ==
    {EmptyFiles,
     [p \in {<<<<"a">>>>} |-> 2],
     [p \in {<<<<"d">>, <<"b">>>>} |-> 1]}

\* archives whose reading fails: two entries, of which none or one is
\* extracted before the error
BrokenArchives ==
    {[p \in {<<<<"a">>>>, <<<<"d">>, <<"b">>>>} |-> 2]}

otherThanHandler == <<modelVars, normVars, concVars, tripVars, storeVars, connVars, pairVars>>

\* the state after a call that left the world w
Becomes(w) ==
    /\ local' = w.local
    /\ remote' = w.remote
    /\ calls' = w.calls
    /\ before' = [local |-> local, remote |-> remote]
    /\ UNCHANGED <<remote0, is_temporal, otherThanHandler>>

FileGet ==
    \E name \in FileNames :
        LET got == HandlerStorage_file_get(World(local, remote), name)
        IN  /\ Becomes(got.w)
            /\ hOp' = Call("file_get", <<name>>, "", got.ret)
            /\ UNCHANGED json

FileSet ==
    \E name \in FileNames, content \in Contents :
        /\ Becomes(HandlerStorage_file_set(World(local, remote), is_temporal,
                                           name, content))
        /\ hOp' = Call("file_set", <<name, content>>, "", None)
        /\ UNCHANGED json

FolderGet ==
    \E name \in FolderNames :
        LET got == HandlerStorage_folder_get(World(local, remote), name)
        IN  /\ Becomes(got.w)
            /\ hOp' = Call("folder_get", <<name>>, "", Some(got.ret))
            /\ UNCHANGED json

FolderSync ==
    \E name \in FolderNames :
        /\ Becomes(HandlerStorage_folder_sync(World(local, remote), is_temporal, name))
        /\ hOp' = Call("folder_sync", <<name>>, "", None)
        /\ UNCHANGED json

\* The handler writes a file into the folder whose path folder_get returned
HandlerWrites ==
    \E content \in Contents :
        LET path == <<<<"d">>, <<"b">>>>
        IN  /\ Becomes([World(local, remote) EXCEPT
                           !.local = ExtractAll(@, [p \in {path} |-> content])])
            /\ hOp' = Call("write", <<path, content>>, "", None)
            /\ UNCHANGED json

IsEmpty ==
    /\ Becomes(World(local, remote))
    /\ hOp' = Call("is_empty", <<>>, "", Some(is_empty(local)))
    /\ UNCHANGED json

ExportFiles ==
    LET got == export_files(World(local, remote))
    IN  /\ Becomes(got.w)
        /\ hOp' = Call("export_files", <<>>, "", got.ret)
        /\ UNCHANGED json

ImportFiles ==
    \E content \in ArchiveInputs :
        /\ Becomes(import_files(World(local, remote), is_temporal, content))
        /\ hOp' = Call("import_files", <<content>>, "", None)
        /\ UNCHANGED json

\* BadZipFile when the archive cannot be opened (nothing extracted), the
\* error of the failing entry when extractall stops part of the way
ImportFilesFails ==
    \E content \in BrokenArchives :
        \E extracted \in SUBSET DOMAIN content :
            /\ extracted # DOMAIN content
            /\ Becomes(import_files_interrupted(World(local, remote), is_temporal,
                                                 content, extracted))
            /\ hOp' = Call("import_files", <<content>>,
                           IF extracted = {} THEN "BadZipFile" ELSE "OSError", None)
            /\ UNCHANGED json

JsonSet ==
    \E name \in JsonNames, content \in Contents :
        /\ json' = HandlerStorage_json_set(json, name, content)
        /\ Becomes(World(local, remote))
        /\ hOp' = Call("json_set", <<name, content>>, "", None)

JsonGet ==
    \E name \in JsonNames :
        /\ Becomes(World(local, remote))
        /\ hOp' = Call("json_get", <<name>>, "", HandlerStorage_json_get(json, name))
        /\ UNCHANGED json

\* A folder whose cache is new: nothing in it, or the backend's lock file
NewFolders == {EmptyFolder, [EmptyFolder EXCEPT !.files = [p \in {<<DirLock>>} |-> 1]]}

InitHandler ==
    /\ local \in NewFolders
    /\ remote \in {EmptyFolder, [EmptyFolder EXCEPT !.files = [p \in {<<<<"a">>>>} |-> 1]]}
    /\ remote0 = remote
    /\ before = [local |-> local, remote |-> remote]
    /\ is_temporal \in BOOLEAN
    /\ calls = <<>>
    /\ json = [name \in JsonNames |-> None]
    /\ hOp = NoCall
    /\ IdleModel
    /\ IdleNorm
    /\ IdleConc
    /\ IdleTrip
    /\ IdleStore
    /\ IdleConn
    /\ IdlePair

NextHandler ==
    \/ FileGet
    \/ FileSet
    \/ FolderGet
    \/ FolderSync
    \/ HandlerWrites
    \/ IsEmpty
    \/ ExportFiles
    \/ ImportFiles
    \/ ImportFilesFails
    \/ JsonSet
    \/ JsonGet

SpecHandler == InitHandler /\ [][NextHandler]_vars

HReturned(name) == hOp.name = name /\ hOp.raised = ""

Pushes == {i \in 1..Len(calls) : calls[i][1] = "push_path"}

(* C4: a temporal HandlerStorage never pushes.  Whatever calls have been   *)
(* made on an instance constructed with is_temporal=True (file_set,        *)
(* file_get, folder_get, folder_sync, export_files, import_files,          *)
(* json_set, json_get), none of them invoked push_path and the remote      *)
(* folder is as it was when the instance was constructed.                  *)
C4_TemporalNeverPushes ==
    is_temporal => (Pushes = {} /\ remote = remote0)

\* a temporal instance has written a file that remote storage does not hold
C4_Witness ==
    /\ is_temporal
    /\ HReturned("file_set")
    /\ hOp.args = <<<<"A">>, 2>>
    /\ local.files[<<<<"A">>>>] = 2
    /\ <<<<"A">>>> \notin DOMAIN remote.files
    /\ remote = remote0

(* C9: the name-normalization rule is applied to every key that reaches    *)
(* the file backend through folder_get, folder_sync and the HandlerStorage *)
(* file operations: the name that file_get and file_set give to pull_path, *)
(* file_get, file_set and push_path is the normalized name, as it is for   *)
(* folder_get and folder_sync.                                             *)
C9_FileKeysNormalized ==
    (hOp.name \in {"file_get", "file_set", "folder_get", "folder_sync"}) =>
        \A i \in 1..Len(calls) : calls[i][2] = __convert_name(hOp.args[1])

(* C10: emptiness.  is_empty() returns true if and only if the local       *)
(* folder has no entry other than reserved service files: a folder with    *)
(* only service files, or nothing, reports true, and any one non-service   *)
(* file (or any directory) in it makes the result false.                   *)
C10_Emptiness ==
    HReturned("is_empty") =>
        (Unwrap(hOp.ret) <=>
            /\ \A p \in DOMAIN local.files :
                  Len(p) = 1 => p[1] \in SERVICE_FILES_NAMES
            /\ \A d \in local.dirs : Len(d) # 1)

\* is_empty() has returned false on a folder that holds the service file
\* and one other file
C10_Witness ==
    /\ HReturned("is_empty")
    /\ Unwrap(hOp.ret) = FALSE
    /\ DOMAIN local.files = {<<DirLock>>, <<<<"a">>>>}
    /\ local.dirs = {}

\* the local folder as folder_get('') leaves the folder the call began with
Pulled == HandlerStorage_folder_get(World(before.local, before.remote), <<>>).w.local

C20_FailedImportNotPublished ==
    (hOp.name = "import_files" /\ hOp.raised # "") =>
        /\ \E extracted \in SUBSET DOMAIN hOp.args[1] :
              /\ extracted # DOMAIN hOp.args[1]
              /\ local.files = Overlay(Pulled.files, Restrict(hOp.args[1], extracted))
              /\ hOp.raised = "BadZipFile" <=> extracted = {}
        /\ DOMAIN before.local.files \subseteq DOMAIN local.files
        /\ Pushes = {}
        /\ remote = before.remote

\* import_files on a non-temporal instance has failed after extracting the
\* entry "a": the file is in the local folder, the entry "d/b" is not, and
\* remote storage has neither
C20_Witness ==
    /\ hOp.name = "import_files"
    /\ hOp.raised = "OSError"
    /\ ~is_temporal
    /\ before.local.files = EmptyFiles
    /\ remote.files = EmptyFiles
    /\ local.files = [p \in {<<<<"a">>>>} |-> 2]

-----------------------------------------------------------------------------
(* export_files on one instance, import_files of the archive into the      *)
(* empty folder of another integration and back into the folder it came    *)
(* from                                                                    *)

\* The folders an integration can hold: a file and the service file at the
\* top, a directory that is empty or holds a file, a service-named file
SourceFolders ==
    {[files |-> f, dirs |-> ds] :
        f \in UNION {[D -> Contents] :
                 D \in SUBSET {<<<<"a">>>>, <<DirLock>>,
                               <<<<"d">>, <<"b">>>>, <<<<"d">>, DirLock>>}},
        ds \in SUBSET {<<<<"d">>>>}}

WellFormed(folder) ==
    /\ \A p \in DOMAIN folder.files : Parents(p) \subseteq folder.dirs
    /\ \A p \in DOMAIN folder.files :
          Last(p) \in SERVICE_FILES_NAMES => folder.files[p] = 1

otherThanTrip == <<modelVars, normVars, concVars, storeVars, connVars, pairVars>>

TripExport ==
    /\ stage = "start"
    /\ LET got == export_files(World(local, remote))
       IN  /\ local' = got.w.local
           /\ remote' = got.w.remote
           /\ calls' = got.w.calls
           /\ hOp' = Call("export_files", <<>>, "", got.ret)
           /\ walked' = IF got.ret = None THEN None ELSE Some(got.w.local.files)
           /\ stage' = IF got.ret = None THEN "nothing" ELSE "exported"
    /\ before' = [local |-> local, remote |-> remote]
    /\ UNCHANGED <<remote0, is_temporal, json, target, otherThanTrip>>

TripImportEmpty ==
    /\ stage = "exported"
    /\ LET w == import_files(World(target.local, target.remote), target.temporal,
                             Unwrap(hOp.ret))
       IN  /\ target' = [target EXCEPT !.local = w.local, !.remote = w.remote]
           /\ calls' = w.calls
    /\ stage' = "imported"
    /\ UNCHANGED <<local, remote, remote0, before, is_temporal, json, hOp, walked,
                   otherThanTrip>>

TripImportBack ==
    /\ stage \in {"exported", "imported"}
    /\ LET w == import_files(World(local, remote), is_temporal, Unwrap(hOp.ret))
       IN  /\ local' = w.local
           /\ remote' = w.remote
           /\ calls' = w.calls
    /\ stage' = "reimported"
    /\ before' = [local |-> local, remote |-> remote]
    /\ UNCHANGED <<remote0, is_temporal, json, hOp, walked, target, otherThanTrip>>

InitTrip ==
    /\ local \in {folder \in SourceFolders : WellFormed(folder)}
    /\ remote \in {EmptyFolder, [EmptyFolder EXCEPT !.files = [p \in {<<<<"a">>>>} |-> 2]]}
    /\ remote0 = remote
    /\ before = [local |-> local, remote |-> remote]
    /\ is_temporal \in BOOLEAN
    /\ calls = <<>>
    /\ json = [name \in JsonNames |-> None]
    /\ hOp = NoCall
    /\ target \in {[local |-> folder, remote |-> EmptyFolder, temporal |-> t,
                    initial |-> folder.files] :
                      folder \in NewFolders, t \in BOOLEAN}
    /\ walked = None
    /\ stage = "start"
    /\ IdleModel
    /\ IdleNorm
    /\ IdleConc
    /\ IdleStore
    /\ IdleConn
    /\ IdlePair

NextTrip ==
    \/ TripExport
    \/ TripImportEmpty
    \/ TripImportBack

SpecTrip == InitTrip /\ [][NextTrip]_vars

NonService(files) ==
    Restrict(files, {p \in DOMAIN files : Last(p) \notin SERVICE_FILES_NAMES})

-----------------------------------------------------------------------------
(* export_files alone, on every folder of SourceFolders *)

ExportReturned == stage \in {"nothing", "exported"} /\ hOp.name = "export_files"

(* C11: export_files returns None when is_empty() is true of the folder it *)
(* is called on; otherwise it returns an archive whose entries are the     *)
(* non-service regular files found at any depth under the local folder (as *)
(* the walk finds it), one entry per file, named by the path relative to   *)
(* the folder root and holding the file's content, and no entry has a      *)
(* service file name.                                                      *)
C11_ExportContents ==
    ExportReturned =>
        /\ is_empty(before.local) => hOp.ret = None
        /\ ~is_empty(before.local) =>
              /\ hOp.ret # None
              /\ DOMAIN Unwrap(hOp.ret) =
                    {p \in DOMAIN local.files : Last(p) \notin SERVICE_FILES_NAMES}
              /\ \A p \in DOMAIN Unwrap(hOp.ret) :
                    /\ Unwrap(hOp.ret)[p] = local.files[p]
                    /\ Last(p) \notin SERVICE_FILES_NAMES

\* the folder has nothing at its top but service files
NoTopLevelEntry(folder) ==
    /\ \A p \in DOMAIN folder.files : Len(p) = 1 => Last(p) \in SERVICE_FILES_NAMES
    /\ \A d \in folder.dirs : Len(d) # 1

(* C19: export_files returns None exactly when there is nothing to export: *)
(* only if the folder, after the pull of folder_get(''), holds no          *)
(* non-service file at any depth (so not for an integration whose files    *)
(* are in remote storage and not yet in the local folder), and an archive  *)
(* it returns has at least one entry (also when the top of the folder has, *)
(* besides service files, only empty directories or directories holding    *)
(* only service-named files).                                              *)
C19_NullExactlyWhenNothingToExport ==
    ExportReturned =>
        /\ hOp.ret = None => DOMAIN NonService(Pulled.files) = {}
        /\ hOp.ret # None => DOMAIN Unwrap(hOp.ret) # {}

(* C19 as amended: export_files returns None exactly when is_empty() is    *)
(* true of the local folder as it is before any pull (nothing at its top   *)
(* but service files), and then it pulls nothing, so it returns None also  *)
(* for an integration whose files are in remote storage and not yet in the *)
(* local folder; an archive it returns has no entry exactly when the       *)
(* pulled folder holds no non-service file at any depth, which is the case *)
(* when the top of the folder has, besides service files, only directories *)
(* that are empty or hold only service-named files.                        *)
C19_NullWhenLocalTopIsEmpty ==
    ExportReturned =>
        /\ hOp.ret = None <=> NoTopLevelEntry(before.local)
        /\ hOp.ret = None => (calls = <<>> /\ local = before.local)
        /\ hOp.ret # None =>
              /\ calls = <<<<"pull_path", <<>>>>, <<"get_path", <<>>>>>>
              /\ local = Pulled
              /\ DOMAIN Unwrap(hOp.ret) = {} <=> DOMAIN NonService(local.files) = {}

\* export_files has returned None on an empty local folder although remote
\* storage holds a file of the integration
C19_Witness ==
    /\ ExportReturned
    /\ hOp.ret = None
    /\ before.local = EmptyFolder
    /\ <<<<"a">>>> \in DOMAIN remote.files
    /\ local = EmptyFolder

\* export_files has returned the archive of a folder that holds a file and
\* a service file at the top and a file and a service-named file in a
\* directory: the archive has the two files, the deeper one under "d/b"
C11_Witness ==
    /\ ExportReturned
    /\ DOMAIN before.local.files =
          {<<<<"a">>>>, <<DirLock>>, <<<<"d">>, <<"b">>>>, <<<<"d">>, DirLock>>}
    /\ hOp.ret # None
    /\ DOMAIN Unwrap(hOp.ret) = {<<<<"a">>>>, <<<<"d">>, <<"b">>>>}
    /\ Unwrap(hOp.ret)[<<<<"d">>, <<"b">>>>] = local.files[<<<<"d">>, <<"b">>>>]

-----------------------------------------------------------------------------
(* ModelStorage: files, folders, JSON values and delete.  Two predictor    *)
(* ids and one integration id, numerically equal to the first predictor    *)
(* id, share the file backend and the JSON store.                          *)

PREDICTOR == "predictor"

INTEGRATION == "integration"

PredictorIds == {1, 2}

IntegrationIds == {1}

\* FileStorageFactory(resource_group=...)(resource_id): the folder of the
\* resource
FileStorageFactory(resource_group, resource_id) == <<resource_group, resource_id>>

\* get_json_storage(resource_id=..., resource_group=...): the values of the
\* resource
get_json_storage(resource_id, resource_group) == <<resource_group, resource_id>>

Resources ==
    {FileStorageFactory(PREDICTOR, id) : id \in PredictorIds}
    \cup {FileStorageFactory(INTEGRATION, id) : id \in IntegrationIds}

\* fileStorage.delete(): the folder of the resource is removed, local and remote
backend_delete(w) ==
    [Logged(w, "delete", <<>>) EXCEPT !.local = EmptyFolder, !.remote = EmptyFolder]

\* json_storage.clean(): every value of the resource is removed
json_clean(values) == [name \in DOMAIN values |-> None]

ModelStorage_file_get(w, name) == backend_file_get(w, name)

ModelStorage_file_set_syncing(w, name, content) ==
    push_path(backend_file_set(w, name, content), name)

ModelStorage_file_set(w, name, content) == backend_file_set(w, name, content)

ModelStorage_folder_get(w, name) ==
    LET name1 == folder_name(name)
    IN  get_path(pull_path(w, name1), name1)

ModelStorage_folder_sync(w, name) == push_path(w, folder_name(name))

ModelStorage_json_set_any_group(storage, predictor_id, name, data) ==
    [storage EXCEPT ![get_json_storage(predictor_id, INTEGRATION)][name] = Some(data)]

ModelStorage_json_set(storage, predictor_id, name, data) ==
    [storage EXCEPT ![get_json_storage(predictor_id, PREDICTOR)][name] = Some(data)]

ModelStorage_json_get(storage, predictor_id, name) ==
    storage[get_json_storage(predictor_id, PREDICTOR)][name]

ModelStorage_delete_files_only(w, storage, predictor_id) ==
    [w |-> backend_delete(w), json |-> storage]

ModelStorage_delete(w, storage, predictor_id) ==
    [w |-> backend_delete(w),
     json |-> [storage EXCEPT ![get_json_storage(predictor_id, PREDICTOR)] =
                   json_clean(@)]]

StoreFileNames == {<<"a">>}

StoreFolderNames == {<<"D">>}

StoreContents == {1}

otherThanStore == <<normVars, concVars, handlerVars, tripVars, connVars, pairVars>>

WorldOf(r) == World(fileStorages[r].local, fileStorages[r].remote)

\* the state after a call on the instance of resource r that left the world w
StoreBecomes(r, w) ==
    /\ fileStorages' = [fileStorages EXCEPT ![r] = [local |-> w.local, remote |-> w.remote]]
    /\ filesBefore' = fileStorages
    /\ mCalls' = w.calls
    /\ self' = r
    /\ UNCHANGED otherThanStore

MFileGet(predictor_id) ==
    \E name \in StoreFileNames :
        LET r == FileStorageFactory(PREDICTOR, predictor_id)
            got == ModelStorage_file_get(WorldOf(r), name)
        IN  /\ StoreBecomes(r, got.w)
            /\ mOp' = Call("file_get", <<name>>, "", got.ret)
            /\ UNCHANGED <<jsonStorage, lastSet, modelVars>>

MFileSet(predictor_id) ==
    \E name \in StoreFileNames, content \in StoreContents :
        LET r == FileStorageFactory(PREDICTOR, predictor_id)
        IN  /\ StoreBecomes(r, ModelStorage_file_set(WorldOf(r), name, content))
            /\ mOp' = Call("file_set", <<name, content>>, "", None)
            /\ UNCHANGED <<jsonStorage, lastSet, modelVars>>

MFolderGet(predictor_id) ==
    \E name \in StoreFolderNames :
        LET r == FileStorageFactory(PREDICTOR, predictor_id)
            got == ModelStorage_folder_get(WorldOf(r), name)
        IN  /\ StoreBecomes(r, got.w)
            /\ mOp' = Call("folder_get", <<name>>, "", Some(got.ret))
            /\ UNCHANGED <<jsonStorage, lastSet, modelVars>>

MFolderSync(predictor_id) ==
    \E name \in StoreFolderNames :
        LET r == FileStorageFactory(PREDICTOR, predictor_id)
        IN  /\ StoreBecomes(r, ModelStorage_folder_sync(WorldOf(r), name))
            /\ mOp' = Call("folder_sync", <<name>>, "", None)
            /\ UNCHANGED <<jsonStorage, lastSet, modelVars>>

\* The caller writes a file into the folder whose path folder_get returned
ModelWrites(predictor_id) ==
    LET r == FileStorageFactory(PREDICTOR, predictor_id)
        path == <<<<"d">>, <<"b">>>>
    IN  /\ mOp.name = "folder_get"
        /\ self = r
        /\ StoreBecomes(r, [WorldOf(r) EXCEPT
                               !.local = ExtractAll(@, [q \in {path} |-> 1])])
        /\ mOp' = Call("write", <<path, 1>>, "", None)
        /\ UNCHANGED <<jsonStorage, lastSet, modelVars>>

MJsonSet(predictor_id) ==
    \E name \in JsonNames, data \in Contents :
        LET r == FileStorageFactory(PREDICTOR, predictor_id)
        IN  /\ jsonStorage' = ModelStorage_json_set(jsonStorage, predictor_id, name, data)
            /\ lastSet' = [lastSet EXCEPT ![r][name] = Some(data)]
            /\ StoreBecomes(r, WorldOf(r))
            /\ mOp' = Call("json_set", <<name, data>>, "", None)
            /\ UNCHANGED modelVars

MJsonGet(predictor_id) ==
    \E name \in JsonNames :
        LET r == FileStorageFactory(PREDICTOR, predictor_id)
        IN  /\ StoreBecomes(r, WorldOf(r))
            /\ mOp' = Call("json_get", <<name>>, "",
                           ModelStorage_json_get(jsonStorage, predictor_id, name))
            /\ UNCHANGED <<jsonStorage, lastSet, modelVars>>

\* delete() of the predictor whose row 'predictor' is, or of the other one
MDelete(predictor_id) ==
    LET r == FileStorageFactory(PREDICTOR, predictor_id)
        got == ModelStorage_delete(WorldOf(r), jsonStorage, predictor_id)
    IN  /\ StoreBecomes(r, got.w)
        /\ jsonStorage' = got.json
        /\ lastSet' = [lastSet EXCEPT ![r] = json_clean(@)]
        /\ mOp' = Call("delete", <<>>, "", None)
        /\ prev' = predictor
        /\ lastOp' = Call("delete", <<>>, "", None)
        /\ UNCHANGED predictor

\* json_set and file_set on the HandlerStorage of an integration
HJsonSet(integration_id) ==
    \E name \in JsonNames, content \in Contents :
        LET r == FileStorageFactory(INTEGRATION, integration_id)
        IN  /\ jsonStorage' =
                  [jsonStorage EXCEPT ![get_json_storage(integration_id, INTEGRATION)] =
                      HandlerStorage_json_set(@, name, content)]
            /\ lastSet' = [lastSet EXCEPT ![r][name] = Some(content)]
            /\ StoreBecomes(r, WorldOf(r))
            /\ mOp' = Call("json_set", <<name, content>>, "", None)
            /\ UNCHANGED modelVars

HJsonGet(integration_id) ==
    \E name \in JsonNames :
        LET r == FileStorageFactory(INTEGRATION, integration_id)
        IN  /\ StoreBecomes(r, WorldOf(r))
            /\ mOp' = Call("json_get", <<name>>, "",
                           HandlerStorage_json_get(
                               jsonStorage[get_json_storage(integration_id, INTEGRATION)],
                               name))
            /\ UNCHANGED <<jsonStorage, lastSet, modelVars>>

HFileSet(integration_id) ==
    \E name \in StoreFileNames :
        LET r == FileStorageFactory(INTEGRATION, integration_id)
        IN  /\ StoreBecomes(r, HandlerStorage_file_set(WorldOf(r), FALSE, name, 2))
            /\ mOp' = Call("file_set", <<name, 2>>, "", None)
            /\ UNCHANGED <<jsonStorage, lastSet, modelVars>>

InitStore ==
    /\ fileStorages = [r \in Resources |-> [local |-> EmptyFolder, remote |-> EmptyFolder]]
    /\ jsonStorage = [r \in Resources |-> [name \in JsonNames |-> None]]
    /\ lastSet = jsonStorage
    /\ filesBefore = fileStorages
    /\ self = FileStorageFactory(PREDICTOR, 1)
    /\ mCalls = <<>>
    /\ mOp = NoCall
    /\ predictor = Some(NewRecord)
    /\ prev = predictor
    /\ lastOp = NoCall
    /\ IdleNorm
    /\ IdleConc
    /\ IdleHandler
    /\ IdleTrip
    /\ IdleConn
    /\ IdlePair

NextStore ==
    \/ \E predictor_id \in PredictorIds : MFileGet(predictor_id)
    \/ \E predictor_id \in PredictorIds : MFileSet(predictor_id)
    \/ \E predictor_id \in PredictorIds : MFolderGet(predictor_id)
    \/ \E predictor_id \in PredictorIds : MFolderSync(predictor_id)
    \/ \E predictor_id \in PredictorIds : ModelWrites(predictor_id)
    \/ \E predictor_id \in PredictorIds : MJsonSet(predictor_id)
    \/ \E predictor_id \in PredictorIds : MJsonGet(predictor_id)
    \/ \E predictor_id \in PredictorIds : MDelete(predictor_id)
    \/ \E integration_id \in IntegrationIds : HJsonSet(integration_id)
    \/ \E integration_id \in IntegrationIds : HJsonGet(integration_id)
    \/ \E integration_id \in IntegrationIds : HFileSet(integration_id)
    \/ GetInfo

SpecStore == InitStore /\ [][NextStore]_vars

OtherResources == Resources \ {self}

HasCall(log, fn) == \E i \in 1..Len(log) : log[i][1] = fn

\* what a step of the ModelStorage of a predictor may do to the backend
SyncStep ==
    /\ (self'[1] = PREDICTOR /\ mOp' # NoCall) =>
          /\ HasCall(mCalls', "pull_path") => mOp'.name = "folder_get"
          /\ HasCall(mCalls', "push_path") => mOp'.name = "folder_sync"
          /\ mOp'.name = "folder_get" =>
                mCalls' = <<<<"pull_path", folder_name(mOp'.args[1])>>,
                            <<"get_path", folder_name(mOp'.args[1])>>>>
          /\ mOp'.name = "folder_sync" =>
                mCalls' = <<<<"push_path", folder_name(mOp'.args[1])>>>>
    /\ \A predictor_id \in PredictorIds :
          LET r == FileStorageFactory(PREDICTOR, predictor_id)
          IN  fileStorages'[r].remote # fileStorages[r].remote =>
                  (self' = r /\ mOp'.name \in {"folder_sync", "delete"})
    /\ (lastOp' # lastOp /\ lastOp'.name = "get_info") =>
          UNCHANGED <<fileStorages, jsonStorage, mCalls>>

C17_JsonScoped ==
    /\ mOp.name = "json_get" => mOp.ret = lastSet[self][mOp.args[1]]
    /\ \A r \in Resources : \A name \in JsonNames :
          jsonStorage[r][name] = lastSet[r][name]

\* json_get on the ModelStorage of predictor 1 has returned 1 while the
\* integration with the same number and the other predictor hold 2 under
\* the same name
C17_Witness ==
    /\ mOp.name = "json_get"
    /\ self = FileStorageFactory(PREDICTOR, 1)
    /\ mOp.ret = Some(1)
    /\ jsonStorage[FileStorageFactory(INTEGRATION, 1)][<<"k">>] = Some(2)
    /\ jsonStorage[FileStorageFactory(PREDICTOR, 2)][<<"k">>] = Some(2)

(* C12: delete semantics.  After ModelStorage.delete() for predictor id p, *)
(* file_get(name) and json_get(name) for p return None for every name,     *)
(* the names set before included, while the record row is untouched (it is *)
(* the row the call found, and get_info afterwards returns its status,     *)
(* to_predict and data); the files and the JSON values of every other      *)
(* predictor id and of the integrations are unchanged.                     *)
C12_DeleteSemantics ==
    /\ mOp.name = "delete" =>
          /\ \A name \in StoreFileNames :
                ModelStorage_file_get(WorldOf(self), name).ret = None
          /\ \A name \in JsonNames :
                ModelStorage_json_get(jsonStorage, self[2], name) = None
          /\ \A r \in OtherResources :
                /\ fileStorages[r] = filesBefore[r]
                /\ jsonStorage[r] = lastSet[r]
          /\ predictor = Some(NewRecord)
    /\ lastOp.name = "delete" => predictor = prev
    /\ (mOp.name = "delete" /\ lastOp.name = "get_info") =>
          /\ lastOp.raised = ""
          /\ lastOp.ret = Some(get_info(NewRecord))

\* delete() of predictor 1 has removed its file and its JSON value, the
\* other predictor and the integration of the same number still have their
\* files and values, and get_info has returned after it
C12_Witness ==
    /\ mOp.name = "delete"
    /\ self = FileStorageFactory(PREDICTOR, 1)
    /\ <<<<"a">>>> \in DOMAIN filesBefore[self].local.files
    /\ fileStorages[self] = [local |-> EmptyFolder, remote |-> EmptyFolder]
    /\ jsonStorage[self][<<"k">>] = None
    /\ jsonStorage[FileStorageFactory(PREDICTOR, 2)][<<"k">>] = Some(1)
    /\ jsonStorage[FileStorageFactory(INTEGRATION, 1)][<<"k">>] = Some(2)
    /\ <<<<"a">>>> \in DOMAIN fileStorages[FileStorageFactory(PREDICTOR, 2)].local.files
    /\ <<<<"a">>>> \in DOMAIN fileStorages[FileStorageFactory(INTEGRATION, 1)].remote.files
    /\ lastOp.name = "get_info"
    /\ lastOp.raised = ""

-----------------------------------------------------------------------------
(* HandlerStorage: the connection arguments of the integration record *)

ConnectionArgs == Dicts(Keys, Vals)

\* An integration record as its creator (outside this layer) leaves it
NewIntegration == [engine |-> "notion", data |-> None]

\* rec.data of the row; AttributeError on the None of an absent row
get_connection_args(table) ==
    IF table = None
    THEN [raised |-> "AttributeError", ret |-> None]
    ELSE [raised |-> "", ret |-> Unwrap(table).data]

update_connection_args_merging(table, connection_args) ==
    IF table = None
    THEN [raised |-> "KeyError", table |-> table]
    ELSE [raised |-> "",
          table |-> Some(update_data(Unwrap(table), connection_args))]

\* KeyError for an absent row, else rec.data = connection_args and a commit
update_connection_args(table, connection_args) ==
    IF table = None
    THEN [raised |-> "KeyError", table |-> table]
    ELSE [raised |-> "",
          table |-> Some([Unwrap(table) EXCEPT !.data = Some(connection_args)])]

otherThanConn == <<modelVars, normVars, concVars, handlerVars, tripVars, storeVars, pairVars>>

GetConnectionArgs ==
    LET got == get_connection_args(integration)
    IN  /\ integration' = integration
        /\ integrationBefore' = integration
        /\ cOp' = Call("get_connection_args", <<>>, got.raised, got.ret)
        /\ UNCHANGED otherThanConn

UpdateConnectionArgs ==
    \E connection_args \in ConnectionArgs :
        LET got == update_connection_args(integration, connection_args)
        IN  /\ integration' = got.table
            /\ integrationBefore' = integration
            /\ cOp' = Call("update_connection_args", <<connection_args>>,
                           got.raised, None)
            /\ UNCHANGED otherThanConn

InitConn ==
    /\ integration \in {None, Some(NewIntegration)}
    /\ integrationBefore = integration
    /\ cOp = NoCall
    /\ IdleModel
    /\ IdleNorm
    /\ IdleConc
    /\ IdleHandler
    /\ IdleTrip
    /\ IdleStore
    /\ IdlePair

NextConn ==
    \/ GetConnectionArgs
    \/ UpdateConnectionArgs

SpecConn == InitConn /\ [][NextConn]_vars

(* C13: update_connection_args(args).  With the integration record absent  *)
(* the call raises KeyError and the record store is as it was: no record   *)
(* is created.  With the record present the 'data' field afterwards is     *)
(* args exactly, no key of the previous connection arguments is kept       *)
(* unless args has it, and a following get_connection_args() returns args. *)
C13_ConnectionArgsReplaced ==
    /\ cOp.name = "update_connection_args" =>
          IF integrationBefore = None
          THEN /\ cOp.raised = "KeyError"
               /\ integration = None
          ELSE /\ cOp.raised = ""
               /\ integration # None
               /\ Unwrap(integration).data = Some(cOp.args[1])
               /\ Unwrap(integration).engine = Unwrap(integrationBefore).engine
               /\ get_connection_args(integration).ret = Some(cOp.args[1])
    /\ (cOp.name = "get_connection_args" /\ integration # None) =>
          /\ cOp.raised = ""
          /\ cOp.ret = Unwrap(integration).data
          /\ integration = integrationBefore

\* update_connection_args({b:2}) has returned on a record whose connection
\* arguments were {a:1}: the key "a" is gone
C13_Witness ==
    /\ cOp.name = "update_connection_args"
    /\ cOp.raised = ""
    /\ cOp.args[1] = Dict1("b", 2)
    /\ Unwrap(integrationBefore).data = Some(Dict1("a", 1))
    /\ Unwrap(integration).data = Some(Dict1("b", 2))

-----------------------------------------------------------------------------
(* Two HandlerStorage instances of one integration id, each with a local   *)
(* folder of its own (root_dir), over the same remote storage              *)

Instances == {1, 2}

PairFileNames == {<<"a">>}

LocalOf(i) == IF i = 1 THEN local ELSE cache2

TemporalOf(i) == IF i = 1 THEN is_temporal ELSE temporal2

otherThanPair == <<modelVars, normVars, concVars, tripVars, storeVars, connVars>>

\* the state after a call on instance i that left the world w
PairBecomes(i, w) ==
    /\ local' = IF i = 1 THEN w.local ELSE local
    /\ cache2' = IF i = 2 THEN w.local ELSE cache2
    /\ remote' = w.remote
    /\ calls' = w.calls
    /\ before' = [local |-> LocalOf(i), remote |-> remote]
    /\ caller' = i
    /\ UNCHANGED <<remote0, is_temporal, temporal2, json, otherThanPair>>

\* the remote copy of the file of that name, None when there is none
RemoteCopy(folder, name) ==
    IF <<name>> \in DOMAIN folder.files THEN Some(folder.files[<<name>>]) ELSE None

PairFileGet(i) ==
    \E name \in PairFileNames :
        LET got == HandlerStorage_file_get(World(LocalOf(i), remote), name)
        IN  /\ PairBecomes(i, got.w)
            /\ hOp' = Call("file_get", <<name>>, "", got.ret)
            /\ UNCHANGED written

PairFileSet(i) ==
    \E name \in PairFileNames, content \in Contents :
        /\ PairBecomes(i, HandlerStorage_file_set(World(LocalOf(i), remote),
                                                  TemporalOf(i), name, content))
        /\ hOp' = Call("file_set", <<name, content>>, "", None)
        /\ written' = [written EXCEPT
                          ![name] = IF TemporalOf(i) THEN None ELSE Some(content)]

\* folder_sync(''): a push of the whole local folder, which writes every
\* name whose remote copy it changes
PairFolderSync(i) ==
    LET w == HandlerStorage_folder_sync(World(LocalOf(i), remote), TemporalOf(i), <<>>)
    IN  /\ PairBecomes(i, w)
        /\ hOp' = Call("folder_sync", <<<<>>>>, "", None)
        /\ written' = [name \in PairFileNames |->
                          IF RemoteCopy(w.remote, name) # RemoteCopy(remote, name)
                          THEN None ELSE written[name]]

InitPair ==
    /\ local = EmptyFolder
    /\ cache2 = EmptyFolder
    /\ remote \in {EmptyFolder, [EmptyFolder EXCEPT !.files = [p \in {<<<<"a">>>>} |-> 1]]}
    /\ remote0 = remote
    /\ before = [local |-> local, remote |-> remote]
    /\ is_temporal \in BOOLEAN
    /\ temporal2 \in BOOLEAN
    /\ calls = <<>>
    /\ json = [name \in JsonNames |-> None]
    /\ hOp = NoCall
    /\ caller = 1
    /\ written = [name \in PairFileNames |-> None]
    /\ IdleModel
    /\ IdleNorm
    /\ IdleConc
    /\ IdleTrip
    /\ IdleStore
    /\ IdleConn

NextPair ==
    \/ \E i \in Instances : PairFileGet(i)
    \/ \E i \in Instances : PairFileSet(i)
    \/ \E i \in Instances : PairFolderSync(i)

SpecPair == InitPair /\ [][NextPair]_vars

(* C15: HandlerStorage file ordering.  file_get(name) calls pull_path(name) *)
(* and then the backend's file_get(name); a non-temporal file_set(name,     *)
(* content) calls the backend's file_set(name) and then push_path(name).    *)
(* Hence once a non-temporal file_set(name, content) has returned, a later  *)
(* file_get(name) on either instance returns content, as long as nothing    *)
(* has written that name in between: no other file_set of it and no push    *)
(* that changed its remote copy.                                            *)
C15_FileOrdering ==
    /\ hOp.name = "file_get" =>
          /\ calls = <<<<"pull_path", hOp.args[1]>>, <<"file_get", hOp.args[1]>>>>
          /\ written[hOp.args[1]] # None => hOp.ret = written[hOp.args[1]]
    /\ (hOp.name = "file_set" /\ ~TemporalOf(caller)) =>
          /\ calls = <<<<"file_set", hOp.args[1]>>, <<"push_path", hOp.args[1]>>>>
          /\ RemoteCopy(remote, hOp.args[1]) = Some(hOp.args[2])

\* file_get('a') on the second instance has returned 2, the content the
\* first, non-temporal instance stored, over the older copy in its own folder
C15_Witness ==
    /\ hOp.name = "file_get"
    /\ caller = 2
    /\ ~is_temporal
    /\ written[<<"a">>] = Some(2)
    /\ hOp.ret = Some(2)
    /\ before.local.files = [p \in {<<<<"a">>>>} |-> 1]
    /\ cache2.files = [p \in {<<<<"a">>>>} |-> 2]

====
